---- MODULE Spec2Model ----
(***************************************************************************)
(* The user deduplication engine of src/src/analyze.py: the UnionFind      *)
(* class, deduplicate_users and find_top_customer.                         *)
(*                                                                         *)
(* Four specifications share the module:                                   *)
(*   SpecUF     any sequence of find / union / get_groups calls on a fresh *)
(*              UnionFind instance;                                        *)
(*   SpecDedup  one run of deduplicate_users on a bounded user table;      *)
(*   SpecDedupOrders  the same run, the rows of the table in any order;    *)
(*   SpecTop    one run of find_top_customer on a bounded order table.     *)
(***************************************************************************)
EXTENDS Integers, Sequences, FiniteSets, TLC

VARIABLES
    uf,        \* the UnionFind instance: [parent |-> dict, rank |-> dict]
    ret,       \* the value returned by the last UnionFind call
    last,      \* history: which call ran last and what it did
    seen,      \* history: the identifiers passed to find or union so far
    linked,    \* history: closure of the union(a, b) calls made so far
    pc,        \* the step deduplicate_users / find_top_customer is about to take
    users_df,  \* the user table: a sequence of rows
    by_email, by_phone, by_name, by_address,   \* the four indexes of step 2
    user_data,        \* id -> the four fields (step 3)
    potential_pairs,  \* the candidate pairs of step 4
    pending,          \* the candidate pairs the loop of step 5 has yet to visit
    unioned,          \* history: the pairs step 5 handed to uf.union
    merges,           \* history: how many of those unions joined two groups
    unique_count,     \* first component of deduplicate_users' result
    user_groups,      \* second component, and find_top_customer's argument
    orders_df,        \* the order table: a sequence of rows
    user_spending,    \* user_id -> summed paid_price
    user_to_canonical,    \* id -> canonical id
    canonical_spending,   \* canonical id -> summed spending, in insertion order
    top                   \* find_top_customer's result

ufVars == <<uf, ret, last, seen, linked>>
dedupVars == <<users_df, by_email, by_phone, by_name, by_address, user_data,
               potential_pairs, pending, unioned, merges, unique_count>>
topVars == <<orders_df, user_spending, user_to_canonical, canonical_spending, top>>
vars == <<ufVars, pc, dedupVars, user_groups, topVars>>

(***************************************************************************)
(* Bounds                                                                  *)
(***************************************************************************)
\* identifiers handed to the UnionFind under SpecUF are 1..MaxId
MaxId == 4

Ids == 1..MaxId

\* a column of the user table holds at most MaxVal distinct present values
MaxVal == 2

\* under SpecDedupOrders, where the rows come in every order, a column holds
\* at most OrderMaxVal distinct present values
OrderMaxVal == 1

\* the user ids of the tables (the ids of the docstrings' examples)
UserIds == {101, 102, 103}

\* an order table holds 1..MaxOrders rows, each with a price of 0..MaxPrice units
MaxOrders == 2
MaxPrice == 3

\* amounts are counted in units of 1/CentUnits of a cent
CentUnits == 4

(***************************************************************************)
(* Python values                                                           *)
(***************************************************************************)
\* Python's None (the return value of union, and an absent field)
None == "None"

\* a dict is a function whose DOMAIN is its key set; {} is the empty function
EmptyDict == <<>>

\* d[k] = v on a dict: overwrite an existing key or insert a new one
DictSet(d, k, v) == IF k \in DOMAIN d THEN [d EXCEPT ![k] = v] ELSE d @@ (k :> v)

\* every order in which the keys of a dict can be iterated
RECURSIVE KeyOrders(_)
KeyOrders(S) ==
    IF S = {} THEN {<<>>} ELSE UNION {{<<k>> \o s : s \in KeyOrders(S \ {k})} : k \in S}

(***************************************************************************)
(* class UnionFind                                                         *)
(***************************************************************************)
\* UnionFind.__init__
NewUnionFind == [parent |-> EmptyDict, rank |-> EmptyDict]

\* the instance left behind by a call that also returned a value
Instance(r) == [parent |-> r.parent, rank |-> r.rank]

\* UnionFind.find: the instance after the call, and the returned root
RECURSIVE find(_, _)
find(u, x) ==
    LET u1 == IF x \notin DOMAIN u.parent
              THEN [parent |-> DictSet(u.parent, x, x), rank |-> DictSet(u.rank, x, 0)]
              ELSE u
    IN  IF u1.parent[x] # x
        THEN LET r == find(u1, u1.parent[x])
             IN  [parent |-> DictSet(r.parent, x, r.ret), rank |-> r.rank, ret |-> r.ret]
        ELSE [parent |-> u1.parent, rank |-> u1.rank, ret |-> u1.parent[x]]

\* mutant: root_y's tree is attached when it is the shorter one's parent
needs_swap_flipped(rank, root_x, root_y) == rank[root_x] > rank[root_y]

\* the test of line 121: root_y's tree is taller, so root_y becomes the parent
needs_swap(rank, root_x, root_y) == rank[root_x] < rank[root_y]

\* lines 120-130 of union, entered with two distinct roots
link(u, root_x0, root_y0) ==
    LET swap   == needs_swap(u.rank, root_x0, root_y0)
        root_x == IF swap THEN root_y0 ELSE root_x0
        root_y == IF swap THEN root_x0 ELSE root_y0
        parent == DictSet(u.parent, root_y, root_x)
    IN  [parent |-> parent,
         rank   |-> IF u.rank[root_x] = u.rank[root_y]
                    THEN DictSet(u.rank, root_x, u.rank[root_x] + 1)
                    ELSE u.rank]

\* mutant: y itself, not its root, is attached under root_x
union_attach_y(u, x, y) ==
    LET fx == find(u, x)
        fy == find(Instance(fx), y)
    IN  IF fx.ret = fy.ret
        THEN Instance(fy)
        ELSE [parent |-> DictSet(fy.parent, y, fx.ret), rank |-> fy.rank]

\* mutant: x and y are linked without resolving their roots
union_no_find(u, x, y) ==
    LET u1 == Instance(find(Instance(find(u, x)), y))
    IN  IF x = y THEN u1 ELSE [parent |-> DictSet(u1.parent, y, x), rank |-> u1.rank]

\* mutant: the early return on equal roots is missing
union_no_return(u, x, y) ==
    LET fx == find(u, x)
        fy == find(Instance(fx), y)
    IN  link(Instance(fy), fx.ret, fy.ret)

\* UnionFind.union: the instance after the call (the call returns None)
union(u, x, y) ==
    LET fx == find(u, x)
        fy == find(Instance(fx), y)
    IN  IF fx.ret = fy.ret
        THEN Instance(fy)
        ELSE link(Instance(fy), fx.ret, fy.ret)

\* mutant: identifiers are bucketed by their parent, not by their root
RECURSIVE get_groups_by_parent(_, _, _)
get_groups_by_parent(u, keys, groups) ==
    IF keys = <<>>
    THEN [parent |-> u.parent, rank |-> u.rank, ret |-> groups]
    ELSE LET x    == Head(keys)
             root == u.parent[x]
             old  == IF root \in DOMAIN groups THEN groups[root] ELSE {}
         IN  get_groups_by_parent(u, Tail(keys), DictSet(groups, root, old \cup {x}))

\* UnionFind.get_groups, the loop over self.parent taken in the order keys
RECURSIVE get_groups(_, _, _)
get_groups(u, keys, groups) ==
    IF keys = <<>>
    THEN [parent |-> u.parent, rank |-> u.rank, ret |-> groups]
    ELSE LET x    == Head(keys)
             f    == find(u, x)
             old  == IF f.ret \in DOMAIN groups THEN groups[f.ret] ELSE {}
         IN  get_groups(Instance(f), Tail(keys), DictSet(groups, f.ret, old \cup {x}))

(***************************************************************************)
(* Reading a UnionFind without changing it                                 *)
(***************************************************************************)
\* what find(x) would return in the instance u
root_of(u, x) == find(u, x).ret

\* the number of parent links from x to its root (0 for a root or an unseen id)
RECURSIVE depth(_, _, _)
depth(u, x, fuel) ==
    IF fuel = 0 \/ x \notin DOMAIN u.parent \/ u.parent[x] = x
    THEN 0
    ELSE 1 + depth(u, u.parent[x], fuel - 1)

\* x after following k parent links
RECURSIVE ancestor(_, _, _)
ancestor(u, x, k) == IF k = 0 THEN x ELSE ancestor(u, u.parent[x], k - 1)

RECURSIVE pow2(_)
pow2(n) == IF n = 0 THEN 1 ELSE 2 * pow2(n - 1)

(***************************************************************************)
(* The closure of the union calls, kept apart from the parent map          *)
(***************************************************************************)
\* the identifiers R joins to x, x among them
ClassOf(R, x) == {x} \cup {p[1] : p \in {q \in R : q[2] = x}}

\* the relation after one more call union(x, y): R is an equivalence on the
\* identifiers it mentions, and the classes of x and y become one class
Link(R, x, y) ==
    R \cup ((ClassOf(R, x) \cup ClassOf(R, y)) \X (ClassOf(R, x) \cup ClassOf(R, y)))

\* x and y are joined by a chain of union calls (or are the same identifier)
Connected(x, y) == x = y \/ <<x, y>> \in linked

(***************************************************************************)
(* SpecUF: calls on a fresh UnionFind                                      *)
(***************************************************************************)
NoCall == [op |-> "new", same |-> FALSE, changed |-> FALSE, repointed |-> FALSE]

\* the call from instance u to instance v gave a registered identifier a new parent
Repointed(u, v) == \E z \in DOMAIN u.parent : v.parent[z] # u.parent[z]

\* the variables of deduplicate_users before it is called
DedupIdle ==
    /\ users_df = <<>>
    /\ by_email = EmptyDict /\ by_phone = EmptyDict
    /\ by_name = EmptyDict /\ by_address = EmptyDict
    /\ user_data = EmptyDict
    /\ potential_pairs = {} /\ pending = {} /\ unioned = {}
    /\ merges = 0
    /\ unique_count = 0

\* the variables of find_top_customer before it is called
TopIdle ==
    /\ orders_df = <<>>
    /\ user_spending = EmptyDict
    /\ user_to_canonical = EmptyDict
    /\ canonical_spending = [keys |-> <<>>, val |-> EmptyDict]
    /\ top = None

InitUF ==
    /\ uf = NewUnionFind
    /\ ret = None
    /\ last = NoCall
    /\ seen = {}
    /\ linked = {}
    /\ pc = "uf"
    /\ user_groups = EmptyDict
    /\ DedupIdle
    /\ TopIdle

\* uf.find(x)
Find(x) ==
    LET f == find(uf, x)
    IN  /\ uf' = Instance(f)
        /\ ret' = f.ret
        /\ last' = [op |-> "find", same |-> FALSE, changed |-> Instance(f) # uf,
                    repointed |-> Repointed(uf, f)]
        /\ seen' = seen \cup {x}
        /\ UNCHANGED <<linked, pc, dedupVars, user_groups, topVars>>

\* uf.union(x, y)
Union(x, y) ==
    /\ uf' = union(uf, x, y)
    /\ ret' = None
    /\ last' = [op |-> "union", same |-> root_of(uf, x) = root_of(uf, y),
                changed |-> uf' # uf, repointed |-> Repointed(uf, uf')]
    /\ seen' = seen \cup {x, y}
    /\ linked' = Link(linked, x, y)
    /\ UNCHANGED <<pc, dedupVars, user_groups, topVars>>

\* uf.get_groups(), iterating self.parent in any insertion order
GetGroups ==
    \E keys \in KeyOrders(DOMAIN uf.parent) :
        LET g == get_groups(uf, keys, EmptyDict)
        IN  /\ uf' = Instance(g)
            /\ ret' = g.ret
            /\ last' = [op |-> "get_groups", same |-> FALSE, changed |-> Instance(g) # uf,
                        repointed |-> Repointed(uf, g)]
            /\ UNCHANGED <<seen, linked, pc, dedupVars, user_groups, topVars>>

NextUF ==
    \/ \E x \in Ids : Find(x)
    \/ \E x, y \in Ids : Union(x, y)
    \/ GetGroups

SpecUF == InitUF /\ [][NextUF]_vars

(***************************************************************************)
(* Field values: strings, None, NaN and the empty string                   *)
(***************************************************************************)
NaN == "NaN"

Fields == {"email", "phone", "name", "address"}

\* pd.notna(v)
notna(v) == v \notin {None, NaN}

\* bool(v): None and "" are false, NaN and every other string are true
truthy(v) == v \notin {None, ""}

\* v1 == v2 in Python: NaN equals nothing, itself included
py_eq(v1, v2) == v1 = v2 /\ v1 # NaN /\ v2 # NaN

Min2(a, b) == IF a < b THEN a ELSE b
Max2(a, b) == IF a < b THEN b ELSE a

\* min(S) of a non-empty collection of ids
min(S) == CHOOSE m \in S : \A z \in S : m <= z

\* sorted(list(S)) of a set of ids
RECURSIVE sorted(_)
sorted(S) == IF S = {} THEN <<>> ELSE <<min(S)>> \o sorted(S \ {min(S)})

\* the elements of a list
Elems(s) == {s[i] : i \in DOMAIN s}

(***************************************************************************)
(* deduplicate_users                                                       *)
(***************************************************************************)
\* step 1: uf.find(uid) for every uid of users_df['id'], in row order
RECURSIVE register(_, _)
register(u, rows) ==
    IF rows = <<>> THEN u ELSE register(Instance(find(u, Head(rows).id)), Tail(rows))

\* step 2, one index: value -> the ids holding it, in row order; only non-null,
\* non-empty values are indexed
RECURSIVE build_index(_, _, _)
build_index(rows, f, d) ==
    IF rows = <<>>
    THEN d
    ELSE LET row == Head(rows)
             v   == row[f]
             old == IF v \in DOMAIN d THEN d[v] ELSE <<>>
         IN  build_index(Tail(rows), f,
                         IF notna(v) /\ truthy(v) THEN DictSet(d, v, Append(old, row.id)) ELSE d)

\* step 3: id -> its four fields
RECURSIVE build_user_data(_, _)
build_user_data(rows, d) ==
    IF rows = <<>>
    THEN d
    ELSE LET row == Head(rows)
         IN  build_user_data(Tail(rows),
                 DictSet(d, row.id, [email |-> row.email, phone |-> row.phone,
                                     name |-> row.name, address |-> row.address]))

\* mutant: the inner loop starts one element too far (users_list[i+2:])
pairs_of_skipping(users_list) ==
    {<<Min2(users_list[i], users_list[j]), Max2(users_list[i], users_list[j])>> :
        <<i, j>> \in {ij \in (DOMAIN users_list) \X (DOMAIN users_list) : ij[1] + 1 < ij[2]}}

\* step 4, one bucket: every pair u1, u2 of users_list[i], users_list[i+1:],
\* stored as (min, max)
pairs_of(users_list) ==
    {<<Min2(users_list[i], users_list[j]), Max2(users_list[i], users_list[j])>> :
        <<i, j>> \in {ij \in (DOMAIN users_list) \X (DOMAIN users_list) : ij[1] < ij[2]}}

\* step 4, one index: the pairs of every bucket with more than one user
index_pairs(index) ==
    UNION {IF Len(index[v]) > 1 THEN pairs_of(index[v]) ELSE {} : v \in DOMAIN index}

\* step 5: the number of fields on which both users hold a value, the same one
count_matches(d1, d2) ==
    Cardinality({f \in Fields : truthy(d1[f]) /\ truthy(d2[f]) /\ py_eq(d1[f], d2[f])})

\* the threshold of line 257
MatchThreshold == 3

\* mutant: two matching fields are enough
is_match_two(matches) == matches >= MatchThreshold - 1

\* the test of line 257
is_match(matches) == matches >= MatchThreshold

\* mutant: the group is stored under its union-find root
canonical_by_root(groups) == [k \in DOMAIN groups |-> sorted(groups[k])]

\* step 6, lines 265-268: {min(members): sorted(list(members))}
canonical_groups(groups) ==
    [k \in {min(groups[r]) : r \in DOMAIN groups} |->
        sorted(CHOOSE members \in {groups[r] : r \in DOMAIN groups} : min(members) = k)]

\* mutant: the members are counted, not the groups
count_members(groups) == Cardinality(UNION {groups[r] : r \in DOMAIN groups})

\* step 6, line 270: len(groups)
count_groups(groups) == Cardinality(DOMAIN groups)

(***************************************************************************)
(* The user tables SpecDedup starts from                                   *)
(***************************************************************************)
\* how an absent value is stored in each column
Absent(f) == CASE f = "email" -> None [] f = "phone" -> NaN
               [] f = "name" -> "" [] f = "address" -> None

\* A column of n cells, 0 for an absent value. The code only tests values for
\* presence and equality, so the present values of a column are numbered by
\* first occurrence: a cell holds at most one more than the cells above it.
Columns(n) ==
    {c \in [1..n -> 0..MaxVal] :
        \A i \in 1..n : \A v \in 1..MaxVal :
            (c[i] = v /\ v > 1) => \E j \in 1..(i - 1) : c[j] = v - 1}

Cell(f, k) == IF k = 0 THEN Absent(f) ELSE ToString(k)

\* the table with the ids S in ascending order and the four given columns
Table(S, ce, cp, cn, ca) ==
    [i \in 1..Cardinality(S) |->
        [id |-> sorted(S)[i], email |-> Cell("email", ce[i]), phone |-> Cell("phone", cp[i]),
         name |-> Cell("name", cn[i]), address |-> Cell("address", ca[i])]]

\* users_df is one of the tables over a subset of UserIds
IsUserTable(S, cols) ==
    \E ce \in cols : \E cp \in cols : \E cn \in cols : \E ca \in cols :
        users_df = Table(S, ce, cp, cn, ca)

(***************************************************************************)
(* SpecDedup: one run of deduplicate_users                                 *)
(***************************************************************************)
InitDedup ==
    /\ uf = NewUnionFind
    /\ ret = None
    /\ last = NoCall
    /\ seen = {}
    /\ linked = {}
    /\ pc = "step1"
    /\ \E S \in SUBSET UserIds : IsUserTable(S, Columns(Cardinality(S)))
    /\ by_email = EmptyDict /\ by_phone = EmptyDict
    /\ by_name = EmptyDict /\ by_address = EmptyDict
    /\ user_data = EmptyDict
    /\ potential_pairs = {} /\ pending = {} /\ unioned = {}
    /\ merges = 0
    /\ unique_count = 0
    /\ user_groups = EmptyDict
    /\ TopIdle

\* step 1: add all user ids to the union-find
RegisterIds ==
    /\ pc = "step1"
    /\ uf' = register(uf, users_df)
    /\ seen' = {users_df[i].id : i \in DOMAIN users_df}
    /\ pc' = "step2"
    /\ UNCHANGED <<ret, last, linked, dedupVars, user_groups, topVars>>

\* step 2: build the four indexes
BuildIndexes ==
    /\ pc = "step2"
    /\ by_email' = build_index(users_df, "email", EmptyDict)
    /\ by_phone' = build_index(users_df, "phone", EmptyDict)
    /\ by_name' = build_index(users_df, "name", EmptyDict)
    /\ by_address' = build_index(users_df, "address", EmptyDict)
    /\ pc' = "step3"
    /\ UNCHANGED <<ufVars, users_df, user_data, potential_pairs, pending, unioned, merges,
                   unique_count, user_groups, topVars>>

\* step 3: the lookup of user data
BuildUserData ==
    /\ pc = "step3"
    /\ user_data' = build_user_data(users_df, EmptyDict)
    /\ pc' = "step4"
    /\ UNCHANGED <<ufVars, users_df, by_email, by_phone, by_name, by_address, potential_pairs,
                   pending, unioned, merges, unique_count, user_groups, topVars>>

\* step 4: the potential pairs of the four indexes
FindPotentialPairs ==
    /\ pc = "step4"
    /\ potential_pairs' = index_pairs(by_email) \cup index_pairs(by_phone)
                            \cup index_pairs(by_name) \cup index_pairs(by_address)
    /\ pending' = potential_pairs'
    /\ pc' = "step5"
    /\ UNCHANGED <<ufVars, users_df, by_email, by_phone, by_name, by_address, user_data,
                   unioned, merges, unique_count, user_groups, topVars>>

\* step 5, one round of the loop: a set is iterated in no particular order
JudgePair(pair) ==
    /\ pc = "step5"
    /\ pair \in pending
    /\ LET u1 == pair[1]
           u2 == pair[2]
           matched == is_match(count_matches(user_data[u1], user_data[u2]))
       IN  /\ uf' = IF matched THEN union(uf, u1, u2) ELSE uf
           /\ unioned' = IF matched THEN unioned \cup {pair} ELSE unioned
           /\ linked' = IF matched THEN Link(linked, u1, u2) ELSE linked
           /\ merges' = IF matched /\ root_of(uf, u1) # root_of(uf, u2)
                        THEN merges + 1 ELSE merges
    /\ pending' = pending \ {pair}
    /\ UNCHANGED <<ret, last, seen, pc, users_df, by_email, by_phone, by_name, by_address,
                   user_data, potential_pairs, unique_count, user_groups, topVars>>

\* step 6: the final groups and the returned pair
FinalGroups ==
    /\ pc = "step5"
    /\ pending = {}
    /\ \E keys \in KeyOrders(DOMAIN uf.parent) :
          LET g == get_groups(uf, keys, EmptyDict)
          IN  /\ uf' = Instance(g)
              /\ ret' = g.ret
              /\ user_groups' = canonical_groups(g.ret)
              /\ unique_count' = count_groups(g.ret)
    /\ pc' = "done"
    /\ UNCHANGED <<last, seen, linked, users_df, by_email, by_phone, by_name, by_address,
                   user_data, potential_pairs, pending, unioned, merges, topVars>>

NextDedup ==
    \/ RegisterIds
    \/ BuildIndexes
    \/ BuildUserData
    \/ FindPotentialPairs
    \/ \E pair \in UserIds \X UserIds : JudgePair(pair)
    \/ FinalGroups

SpecDedup == InitDedup /\ [][NextDedup]_vars

(***************************************************************************)
(* SpecDedupOrders: one run of deduplicate_users, the rows in any order    *)
(***************************************************************************)
\* the columns of n cells with at most OrderMaxVal distinct present values,
\* numbered by first occurrence as in Columns
OrderColumns(n) ==
    {c \in [1..n -> 0..OrderMaxVal] :
        \A i \in 1..n : \A v \in 1..OrderMaxVal :
            (c[i] = v /\ v > 1) => \E j \in 1..(i - 1) : c[j] = v - 1}

\* the rows of table in the order given by a permutation of its row numbers
Reordered(table, order) == [i \in DOMAIN table |-> table[order[i]]]

\* users_df is one of the tables over a subset of UserIds, its rows reordered
IsReorderedUserTable(S, cols) ==
    \E ce \in cols : \E cp \in cols : \E cn \in cols : \E ca \in cols :
        \E order \in KeyOrders(1..Cardinality(S)) :
            users_df = Reordered(Table(S, ce, cp, cn, ca), order)

InitDedupOrders ==
    /\ uf = NewUnionFind
    /\ ret = None
    /\ last = NoCall
    /\ seen = {}
    /\ linked = {}
    /\ pc = "step1"
    /\ \E S \in SUBSET UserIds : IsReorderedUserTable(S, OrderColumns(Cardinality(S)))
    /\ by_email = EmptyDict /\ by_phone = EmptyDict
    /\ by_name = EmptyDict /\ by_address = EmptyDict
    /\ user_data = EmptyDict
    /\ potential_pairs = {} /\ pending = {} /\ unioned = {}
    /\ merges = 0
    /\ unique_count = 0
    /\ user_groups = EmptyDict
    /\ TopIdle

SpecDedupOrders == InitDedupOrders /\ [][NextDedup]_vars

(***************************************************************************)
(* find_top_customer                                                       *)
(***************************************************************************)
\* step 1: orders_df.groupby('user_id')['paid_price'].sum().to_dict()
RECURSIVE group_spending(_, _)
group_spending(rows, d) ==
    IF rows = <<>>
    THEN d
    ELSE LET row == Head(rows)
             old == IF row.user_id \in DOMAIN d THEN d[row.user_id] ELSE 0
         IN  group_spending(Tail(rows), DictSet(d, row.user_id, old + row.paid_price))

\* step 2, the inner loop: every member of one group maps to its canonical id
RECURSIVE map_members(_, _, _)
map_members(d, canonical, members) ==
    IF members = <<>>
    THEN d
    ELSE map_members(DictSet(d, Head(members), canonical), canonical, Tail(members))

\* step 2: the reverse mapping user_id -> canonical_id
RECURSIVE invert_groups(_, _, _)
invert_groups(groups, keys, d) ==
    IF keys = <<>>
    THEN d
    ELSE invert_groups(groups, Tail(keys), map_members(d, Head(keys), groups[Head(keys)]))

\* mutant: the reverse mapping is not consulted
canonical_of_self(mapping, uid) == uid

\* line 381: user_to_canonical.get(uid, uid)
canonical_of(mapping, uid) == IF uid \in DOMAIN mapping THEN mapping[uid] ELSE uid

\* step 3: spending per canonical id; uids are the keys of user_spending in
\* the order groupby leaves them (ascending); cs keeps its insertion order
RECURSIVE aggregate(_, _, _, _)
aggregate(spending, mapping, uids, cs) ==
    IF uids = <<>>
    THEN cs
    ELSE LET uid       == Head(uids)
             canonical == canonical_of(mapping, uid)
             old       == IF canonical \in DOMAIN cs.val THEN cs.val[canonical] ELSE 0
         IN  aggregate(spending, mapping, Tail(uids),
                       [keys |-> IF canonical \in DOMAIN cs.val THEN cs.keys
                                 ELSE Append(cs.keys, canonical),
                        val  |-> DictSet(cs.val, canonical, old + spending[uid])])

\* step 4: max(canonical_spending, key=canonical_spending.get), the first key
\* in insertion order that no key beats
top_spender(cs) ==
    LET best == CHOOSE i \in DOMAIN cs.keys :
                    /\ \A j \in DOMAIN cs.keys : cs.val[cs.keys[j]] <= cs.val[cs.keys[i]]
                    /\ \A j \in 1..(i - 1) : cs.val[cs.keys[j]] < cs.val[cs.keys[i]]
    IN  cs.keys[best]

\* step 5: user_groups.get(top_canonical, [top_canonical])
all_ids_of(groups, top_canonical) ==
    IF top_canonical \in DOMAIN groups THEN groups[top_canonical] ELSE <<top_canonical>>

\* sorted(all_ids) of a list
sorted_list(ids) == SortSeq(ids, LAMBDA a, b : a < b)

\* round(total_spent, 2): the nearest whole cent; a total halfway between two
\* cents goes to either, as the float nearest to it lies on either side
round2(total) ==
    LET below == (total \div CentUnits) * CentUnits
        rest  == total % CentUnits
    IN  IF 2 * rest < CentUnits THEN {below}
        ELSE IF 2 * rest > CentUnits THEN {below + CentUnits}
        ELSE {below, below + CentUnits}

(***************************************************************************)
(* The arguments SpecTop starts from                                       *)
(***************************************************************************)
\* the mappings deduplicate_users returns for the tables over S: one per
\* partition of S, each class under its minimum as an ascending list
GroupMappings(S) ==
    {[k \in {r[x] : x \in S} |-> sorted({x \in S : r[x] = k})] :
        r \in {q \in [S -> S] : \A x \in S : q[q[x]] = q[x] /\ q[x] <= x}}

OrderRows == [user_id : UserIds, paid_price : 0..MaxPrice]

OrderTables == UNION {[1..n -> OrderRows] : n \in 1..MaxOrders}

(***************************************************************************)
(* SpecTop: one run of find_top_customer                                   *)
(***************************************************************************)
InitTop ==
    /\ uf = NewUnionFind
    /\ ret = None
    /\ last = NoCall
    /\ seen = {}
    /\ linked = {}
    /\ pc = "top1"
    /\ DedupIdle
    /\ \E S \in SUBSET UserIds : user_groups \in GroupMappings(S)
    /\ orders_df \in OrderTables
    /\ user_spending = EmptyDict
    /\ user_to_canonical = EmptyDict
    /\ canonical_spending = [keys |-> <<>>, val |-> EmptyDict]
    /\ top = None

\* step 1: spending per user_id
GroupSpending ==
    /\ pc = "top1"
    /\ user_spending' = group_spending(orders_df, EmptyDict)
    /\ pc' = "top2"
    /\ UNCHANGED <<ufVars, dedupVars, user_groups, orders_df, user_to_canonical,
                   canonical_spending, top>>

\* step 2: the reverse mapping
InvertGroups ==
    /\ pc = "top2"
    /\ user_to_canonical' = invert_groups(user_groups, sorted(DOMAIN user_groups), EmptyDict)
    /\ pc' = "top3"
    /\ UNCHANGED <<ufVars, dedupVars, user_groups, orders_df, user_spending,
                   canonical_spending, top>>

\* step 3: spending per canonical user
AggregateSpending ==
    /\ pc = "top3"
    /\ canonical_spending' = aggregate(user_spending, user_to_canonical,
                                       sorted(DOMAIN user_spending),
                                       [keys |-> <<>>, val |-> EmptyDict])
    /\ pc' = "top4"
    /\ UNCHANGED <<ufVars, dedupVars, user_groups, orders_df, user_spending,
                   user_to_canonical, top>>

\* steps 4 and 5 and the return
PickTop ==
    /\ pc = "top4"
    /\ LET top_canonical == top_spender(canonical_spending)
           total_spent   == canonical_spending.val[top_canonical]
       IN  \E rounded \in round2(total_spent) :
              top' = [ids   |-> sorted_list(all_ids_of(user_groups, top_canonical)),
                      total |-> rounded]
    /\ pc' = "top_done"
    /\ UNCHANGED <<ufVars, dedupVars, user_groups, orders_df, user_spending,
                   user_to_canonical, canonical_spending>>

NextTop ==
    \/ GroupSpending
    \/ InvertGroups
    \/ AggregateSpending
    \/ PickTop

SpecTop == InitTop /\ [][NextTop]_vars

(***************************************************************************)
(* Properties of the UnionFind, checked under SpecUF                       *)
(***************************************************************************)
Registered == DOMAIN uf.parent

\* the registered identifiers whose root is r
GroupOfRoot(u, r) == {z \in DOMAIN u.parent : root_of(u, z) = r}

\* rank[z], 0 for an identifier find has yet to register
RankOf(u, z) == IF z \in DOMAIN u.rank THEN u.rank[z] ELSE 0

\* C1: after any sequence of find and union calls, find(x) == find(y) exactly
\* when x and y are joined by the reflexive, symmetric, transitive closure of
\* the union calls made so far.
C1_FindIffConnected ==
    \A x, y \in Ids : (root_of(uf, x) = root_of(uf, y)) <=> Connected(x, y)

\* C1 witness: union(a, b) and union(b, c) were made, a, b and c share a root,
\* and a fourth registered identifier was never linked to them.
C1_Witness ==
    /\ last.op = "union"
    /\ \E a, b, c, d \in seen :
          /\ a # b /\ b # c /\ a # c
          /\ Connected(a, b) /\ Connected(b, c)
          /\ root_of(uf, a) = root_of(uf, c)
          /\ ~Connected(a, d) /\ root_of(uf, a) # root_of(uf, d)

\* C2: get_groups returns a partition of the registered identifiers: every
\* identifier ever passed to find or union is in exactly one member set, the
\* sets are non-empty and pairwise disjoint, they cover the registered
\* identifiers, and each key is the root of and a member of its own set.
C2_GroupsPartition ==
    last.op = "get_groups" =>
        /\ Registered = seen
        /\ UNION {ret[k] : k \in DOMAIN ret} = seen
        /\ \A x \in seen : Cardinality({k \in DOMAIN ret : x \in ret[k]}) = 1
        /\ \A k \in DOMAIN ret :
              /\ ret[k] # {}
              /\ k \in ret[k]
              /\ \A m \in ret[k] : root_of(uf, m) = k
        /\ \A k1, k2 \in DOMAIN ret : k1 # k2 => ret[k1] \cap ret[k2] = {}

\* C2 witness: get_groups returned a singleton group and a group of three
\* members.
C2_Witness ==
    /\ last.op = "get_groups"
    /\ \E k1, k2 \in DOMAIN ret : Cardinality(ret[k1]) = 1 /\ Cardinality(ret[k2]) >= 3

\* C8: the parent map is a forest: every parent is a registered identifier
\* with a rank entry, following parent links from a registered identifier
\* reaches a self-parented root within as many steps as there are identifiers,
\* and the only cycles are the self-loops of roots.
C8_Forest ==
    /\ DOMAIN uf.rank = Registered
    /\ \A x \in Registered : uf.parent[x] \in Registered
    /\ \A x \in Registered :
          \E k \in 0..Cardinality(Registered) :
              uf.parent[ancestor(uf, x, k)] = ancestor(uf, x, k)
    /\ \A x \in Registered :
          \A k \in 1..Cardinality(Registered) :
              ancestor(uf, x, k) = x => uf.parent[x] = x

\* C8 witness: a chain of two parent links below a root.
C8_Witness ==
    \E x \in Registered :
        /\ uf.parent[x] # x
        /\ uf.parent[uf.parent[x]] # uf.parent[x]
        /\ depth(uf, x, MaxId) = 2

\* the step is a call of union
UnionCalled == last'.op = "union"

\* the step is the call union(x, y)
UnionStep(x, y) == UnionCalled /\ uf' = union(uf, x, y)

\* what a call union(x, y) on equal roots may change
SameRootUnionEffect(x, y) ==
    /\ DOMAIN uf'.parent = Registered \cup {x, y}
    /\ DOMAIN uf'.rank = DOMAIN uf'.parent
    /\ \A z \in Registered : uf'.rank[z] = uf.rank[z]
    /\ \A z \in Registered : uf'.parent[z] \in {uf.parent[z], root_of(uf, z)}
    /\ \A z \in DOMAIN uf'.parent \ Registered : uf'.parent[z] = z /\ uf'.rank[z] = 0
    /\ \A z \in Ids : root_of(uf', z) = root_of(uf, z)

\* C9 as amended: union(x, y) on identifiers that resolve to the same root
\* merges nothing: every identifier keeps its root and every registered
\* identifier its rank; the parent map changes only by path compression (a
\* parent replaced by the root) and by the registration of an unseen x as a
\* singleton of rank 0.
C9_SameRootUnionKeepsGroups ==
    [][UnionCalled =>
          \A x, y \in Ids :
              (root_of(uf, x) = root_of(uf, y) /\ UnionStep(x, y)) => SameRootUnionEffect(x, y)]_vars

\* C9 witness: a union on equal roots that compressed a path.
C9_Witness ==
    /\ last.op = "union"
    /\ last.same
    /\ last.repointed

\* C9 as stated: union(x, y) on equal roots leaves the parent map and the rank
\* map as they were.
C9_SameRootUnionIsNoOp ==
    [][UnionCalled =>
          \A x, y \in Ids :
              (root_of(uf, x) = root_of(uf, y) /\ UnionStep(x, y)) =>
                  (uf'.parent = uf.parent /\ uf'.rank = uf.rank)]_vars

\* the rank invariant of C10
RankInvariant ==
    \A x \in Registered :
        /\ uf.parent[x] # x => uf.rank[x] < uf.rank[uf.parent[x]]
        /\ uf.parent[x] = x => Cardinality(GroupOfRoot(uf, x)) >= pow2(uf.rank[x])
        /\ pow2(depth(uf, x, MaxId)) <= Cardinality(GroupOfRoot(uf, root_of(uf, x)))

\* hi becomes the parent of lo, and its rank grows by grow
Attached(lo, hi, grow) ==
    /\ uf'.parent[lo] = hi
    /\ uf'.parent[hi] = hi
    /\ uf'.rank[hi] = RankOf(uf, hi) + grow
    /\ uf'.rank[lo] = RankOf(uf, lo)

\* what a call union(x, y) on distinct roots rx, ry does to the ranks
RankedUnionEffect(rx, ry) ==
    /\ RankOf(uf, rx) < RankOf(uf, ry) => Attached(rx, ry, 0)
    /\ RankOf(uf, rx) > RankOf(uf, ry) => Attached(ry, rx, 0)
    /\ RankOf(uf, rx) = RankOf(uf, ry) => (Attached(rx, ry, 1) \/ Attached(ry, rx, 1))
    /\ \A z \in Registered \ {rx, ry} : uf'.rank[z] = uf.rank[z]

\* C10: every non-root has a rank strictly below its parent's, a root of rank
\* r heads at least 2^r members, no identifier is more than floor(log2(size of
\* its group)) parent links from its root, and union attaches the lower-rank
\* root under the higher-rank root, raising the surviving root's rank by one
\* on a tie and by nothing otherwise.
C10_UnionByRank ==
    /\ []RankInvariant
    /\ [][UnionCalled =>
             \A x, y \in Ids :
                 (root_of(uf, x) # root_of(uf, y) /\ UnionStep(x, y)) =>
                     RankedUnionEffect(root_of(uf, x), root_of(uf, y))]_vars

\* C10 witness: a union left a root of rank 2 with an identifier two links
\* below it, and a root of lower rank was attached without a rank change.
C10_Witness ==
    /\ last.op = "union"
    /\ ~last.same
    /\ \E r \in Registered : uf.parent[r] = r /\ uf.rank[r] = 2
    /\ \E x \in Registered : depth(uf, x, MaxId) = 2

(***************************************************************************)
(* Properties of deduplicate_users, checked under SpecDedup                *)
(***************************************************************************)
\* the ids of the input table
InputIds == {users_df[i].id : i \in DOMAIN users_df}

\* the row of the input table with the given id
RowOf(id) == users_df[CHOOSE i \in DOMAIN users_df : users_df[i].id = id]

\* a value is present: neither null nor empty
Present(v) == v \notin {None, NaN, ""}

\* the number of fields present and non-empty in both records and equal
Agree(a, b) ==
    Cardinality({f \in Fields : /\ Present(RowOf(a)[f]) /\ Present(RowOf(b)[f])
                                /\ RowOf(a)[f] = RowOf(b)[f]})

\* a and b are in the same member list of the returned mapping
SameGroup(a, b) ==
    \E k \in DOMAIN user_groups : a \in Elems(user_groups[k]) /\ b \in Elems(user_groups[k])

\* the ordered pairs of distinct records that agree on three fields or more
StrongPairs == {p \in InputIds \X InputIds : p[1] # p[2] /\ Agree(p[1], p[2]) >= MatchThreshold}

\* one round of composing a relation with itself
Compose(R) ==
    R \cup {<<pq[1][1], pq[2][2]>> : pq \in {pq \in R \X R : pq[1][2] = pq[2][1]}}

RECURSIVE TransitiveClosure(_)
TransitiveClosure(R) == IF Compose(R) = R THEN R ELSE TransitiveClosure(Compose(R))

\* a chain of records joins a and b, each consecutive pair agreeing on three
\* fields or more
Chained(a, b) == <<a, b>> \in TransitiveClosure(StrongPairs)

\* the mapping that judging every pair of the cross product would give
CrossProductGroups ==
    LET chains   == TransitiveClosure(StrongPairs)
        Class(a) == {a} \cup {b \in InputIds : <<a, b>> \in chains}
    IN  [k \in {min(Class(a)) : a \in InputIds} |-> sorted(Class(k))]

\* C3 as stated: two records that agree on 2 or fewer of the four fields lie
\* in different groups of the output.
C3_WeakPairsApart ==
    pc = "done" =>
        \A a, b \in InputIds : (a # b /\ Agree(a, b) <= 2) => ~SameGroup(a, b)

\* C3 as amended: two records that agree on 2 or fewer of the four fields are
\* never handed to union together, and they lie in the same group of the
\* output only when a chain of records joins them in which each consecutive
\* pair agrees on at least 3 fields.
C3_WeakPairsApartUnlessChained ==
    /\ \A p \in unioned : Agree(p[1], p[2]) >= 3
    /\ pc = "done" =>
          \A a, b \in InputIds :
              (a # b /\ Agree(a, b) <= 2 /\ SameGroup(a, b)) => Chained(a, b)

\* C3 witness: a candidate pair agreeing on exactly 2 fields was judged, was
\* not unioned and ended in different groups.
C3_Witness ==
    /\ pc = "done"
    /\ \E p \in potential_pairs :
          Agree(p[1], p[2]) = 2 /\ p \notin unioned /\ ~SameGroup(p[1], p[2])

\* C4: two records that agree on at least 3 of the four fields end in the same
\* group, and the returned mapping is the one that judging the full cross
\* product of the records would give.
C4_StrongPairsTogether ==
    pc = "done" =>
        /\ \A a, b \in InputIds : (a # b /\ Agree(a, b) >= 3) => SameGroup(a, b)
        /\ user_groups = CrossProductGroups

\* C4 witness: a pair agreeing on exactly 3 fields was unioned and shares a
\* group, next to a record that stayed alone.
C4_Witness ==
    /\ pc = "done"
    /\ \E p \in unioned : Agree(p[1], p[2]) = 3 /\ SameGroup(p[1], p[2])
    /\ \E a \in DOMAIN user_groups : user_groups[a] = <<a>>

\* C5: every key of the returned mapping is the minimum of its member list,
\* every member list is ascending without repeats, and every input id is in
\* exactly one member list.
C5_CanonicalGroups ==
    pc = "done" =>
        /\ \A k \in DOMAIN user_groups :
              /\ k \in Elems(user_groups[k])
              /\ \A m \in Elems(user_groups[k]) : k <= m
              /\ \A i, j \in DOMAIN user_groups[k] :
                    i < j => user_groups[k][i] < user_groups[k][j]
              /\ Elems(user_groups[k]) \subseteq InputIds
        /\ \A a \in InputIds :
              Cardinality({k \in DOMAIN user_groups : a \in Elems(user_groups[k])}) = 1

\* C5 witness: the three records form one group, stored under 101, whose
\* union-find root is another member.
C5_Witness ==
    /\ pc = "done"
    /\ 101 \in DOMAIN user_groups
    /\ user_groups[101] = <<101, 102, 103>>
    /\ root_of(uf, 101) # 101

\* C7: the returned count is the number of entries of the returned mapping,
\* is at most the number of input records, and equals it exactly when no
\* union joined two groups; an empty table gives 0 and the empty mapping.
C7_UniqueCount ==
    pc = "done" =>
        /\ unique_count = Cardinality(DOMAIN user_groups)
        /\ unique_count <= Len(users_df)
        /\ unique_count = Len(users_df) <=> merges = 0
        /\ Len(users_df) = 0 => (unique_count = 0 /\ DOMAIN user_groups = {})

\* C7 witness: three records, two merging unions, one person.
C7_Witness ==
    /\ pc = "done"
    /\ Len(users_df) = 3
    /\ merges = 2
    /\ unique_count = 1

(***************************************************************************)
(* Properties of find_top_customer, checked under SpecTop                  *)
(***************************************************************************)
\* the ids that placed an order
OrderingIds == {orders_df[i].user_id : i \in DOMAIN orders_df}

\* the people: the groups of the mapping, and every ordering id outside all
\* of them as a group of its own
People ==
    {Elems(user_groups[k]) : k \in DOMAIN user_groups}
        \cup {{a} : a \in OrderingIds \ UNION {Elems(user_groups[k]) : k \in DOMAIN user_groups}}

\* the sum of paid_price over the orders of the ids in G
RECURSIVE SpentIn(_, _)
SpentIn(rows, G) ==
    IF rows = <<>> THEN 0
    ELSE (IF Head(rows).user_id \in G THEN Head(rows).paid_price ELSE 0) + SpentIn(Tail(rows), G)

Spent(G) == SpentIn(orders_df, G)

\* G is a person no other person outspent, and the returned ids are G's
TopIs(G) ==
    /\ top.ids = sorted(G)
    /\ \A H \in People : Spent(H) <= Spent(G)

\* C6 as stated: find_top_customer returns the sorted member ids of a group of
\* maximal aggregated spending, together with exactly that aggregated total.
C6_TopWithExactTotal ==
    pc = "top_done" => \E G \in People : TopIs(G) /\ top.total = Spent(G)

\* C6 as amended: find_top_customer returns the sorted member ids of a group
\* of maximal aggregated spending, together with that aggregated total rounded
\* to 2 decimal places: a whole number of cents at most half a cent from it.
C6_TopWithRoundedTotal ==
    pc = "top_done" =>
        \E G \in People :
            /\ TopIs(G)
            /\ top.total % CentUnits = 0
            /\ 2 * (top.total - Spent(G)) <= CentUnits
            /\ 2 * (Spent(G) - top.total) <= CentUnits

\* C6 witness: the winner is a group of two ids that both placed orders, and
\* its total was rounded.
C6_Witness ==
    /\ pc = "top_done"
    /\ Len(top.ids) = 2
    /\ Elems(top.ids) \subseteq OrderingIds
    /\ top.total # Spent(Elems(top.ids))

(***************************************************************************)
(* Order independence of deduplicate_users, checked under SpecDedupOrders  *)
(***************************************************************************)
\* the input table with its rows in ascending order of id
RowsById == [i \in 1..Len(users_df) |-> RowOf(sorted(InputIds)[i])]

\* the least pair of a non-empty set of pairs, first components compared first
MinPair(P) ==
    CHOOSE p \in P : \A q \in P : p[1] < q[1] \/ (p[1] = q[1] /\ p[2] <= q[2])

\* the pairs of P in ascending order
RECURSIVE PairsInOrder(_)
PairsInOrder(P) == IF P = {} THEN <<>> ELSE <<MinPair(P)>> \o PairsInOrder(P \ {MinPair(P)})

\* step 5 run over the pairs in the order given
RECURSIVE JudgeInOrder(_, _, _)
JudgeInOrder(u, pairs, data) ==
    IF pairs = <<>>
    THEN u
    ELSE LET p == Head(pairs)
         IN  JudgeInOrder(IF is_match(count_matches(data[p[1]], data[p[2]]))
                          THEN union(u, p[1], p[2]) ELSE u,
                          Tail(pairs), data)

\* deduplicate_users run on the rows in ascending order of id, the candidate
\* pairs judged in ascending order
ReferenceRun ==
    LET rows  == RowsById
        pairs == index_pairs(build_index(rows, "email", EmptyDict))
                    \cup index_pairs(build_index(rows, "phone", EmptyDict))
                    \cup index_pairs(build_index(rows, "name", EmptyDict))
                    \cup index_pairs(build_index(rows, "address", EmptyDict))
        u     == JudgeInOrder(register(NewUnionFind, rows), PairsInOrder(pairs),
                              build_user_data(rows, EmptyDict))
        g     == get_groups(u, sorted(DOMAIN u.parent), EmptyDict)
    IN  [uf |-> Instance(g), unique_count |-> count_groups(g.ret),
         user_groups |-> canonical_groups(g.ret)]

\* C11: the count and the mapping deduplicate_users returns are the same for
\* every order of the input records and every order in which the candidate
\* pairs are judged and unioned: they are those of the run that takes the
\* records and the pairs in ascending order.
C11_OrderIndependent ==
    pc = "done" =>
        LET reference == ReferenceRun
        IN  /\ unique_count = reference.unique_count
            /\ user_groups = reference.user_groups

\* C11 witness: a table whose rows are not in ascending order of id, merged
\* into one group of three, with a union-find that differs from the one the
\* ascending run leaves.
C11_Witness ==
    /\ pc = "done"
    /\ users_df # RowsById
    /\ unique_count = 1
    /\ Len(users_df) = 3
    /\ uf # ReferenceRun.uf

====
